---- MODULE Spec2Model ----
(***************************************************************************)
(* Book-Movie Matcher (book_movie_matcher.py): input cleaning, the CSV     *)
(* catalog, the Goodreads fallback, the sqlite store and the main loop.    *)
(* Strings the code inspects character by character (movie titles, web     *)
(* titles) are sequences of one-character strings.                         *)
(***************************************************************************)
EXTENDS Integers, Sequences, FiniteSets, TLC

VARIABLES
    \* input cleaning on its own
    txt_pc, txt_in, txt_out, txt_ok,
    \* project.db: the committed tables and AUTOINCREMENT counters
    tables, history, books, sqlite_sequence,
    \* the store call in progress, its connection and open transaction
    db_pc, db_args, db_sid, db_next, pend_history, pend_books,
    \* who holds the file's write lock, and connections nobody closed
    write_lock, n_leaked, n_abandoned,
    \* the call that ended last, what show_records printed last, and the
    \* arguments of the save calls that returned
    db_last, shown, save_log,
    \* books_movies.csv, the list objects of the process (a list is known by
    \* its place in heap) and the dict load_csv returns (key -> list)
    csv_file, heap, dataset,
    \* one call of from_local on its own
    loc_pc, loc_movie, loc_minimum, loc_out,
    \* one call of fetch_data_from_web on its own: the response, the
    \* arguments, the list returned and the number of anchors looked at
    web_pc, web_page, web_genre, web_count, web_out, web_seen,
    \* main: where it is, the user's name, the list recs is bound to, the
    \* session log, the message of the last query, the number of titles
    \* that passed validation, and what the last query looked up and fetched
    main_pc, main_user, recs, session_memory, outcome, n_valid, query

textVars == <<txt_pc, txt_in, txt_out, txt_ok>>

storeVars == <<tables, history, books, sqlite_sequence>>

callVars == <<db_pc, db_args, db_sid, db_next, pend_history, pend_books>>

connVars == <<write_lock, n_leaked, n_abandoned>>

dbVars == <<storeVars, callVars, connVars, db_last, shown, save_log>>

catVars == <<csv_file, heap, dataset>>

locVars == <<loc_pc, loc_movie, loc_minimum, loc_out>>

webVars == <<web_pc, web_page, web_genre, web_count, web_out, web_seen>>

mainVars == <<main_pc, main_user, recs, session_memory, outcome, n_valid, query>>

vars == <<textVars, dbVars, catVars, locVars, webVars, mainVars>>

(***************************************************************************)
(* Bounds of the model.                                                    *)
(***************************************************************************)
MaxLen == 5

MaxSaves == 2

MaxConns == 2

MaxRows == 5

MaxLimit == 5

MaxAnchors == 3

MaxCount == 3

MaxQueries == 2

(***************************************************************************)
(* Characters.                                                             *)
(***************************************************************************)
UpperLetters ==
    <<"A","B","C","D","E","F","G","H","I","J","K","L","M",
      "N","O","P","Q","R","S","T","U","V","W","X","Y","Z">>

LowerLetters ==
    <<"a","b","c","d","e","f","g","h","i","j","k","l","m",
      "n","o","p","q","r","s","t","u","v","w","x","y","z">>

Digits == {"0","1","2","3","4","5","6","7","8","9"}

Range(s) == {s[i] : i \in DOMAIN s}

\* the sequences over chars of at most n elements
StringsUpTo(chars, n) == UNION {[1..k -> chars] : k \in 0..n}

\* \s of the re module, and the characters str.strip() removes
Whitespace == {" ", "\t", "\n", "\r", "\f"}

\* the character class [A-Za-z0-9\s\-\'\"!?.,] of tidy and valid
AllowedChars ==
    Range(UpperLetters) \cup Range(LowerLetters) \cup Digits \cup Whitespace
        \cup {"-", "'", "\"", "!", "?", ".", ","}

\* the lower-case letter of every upper-case letter
LowerOf ==
    [c \in Range(UpperLetters) |->
        LowerLetters[CHOOSE i \in DOMAIN UpperLetters : UpperLetters[i] = c]]

\* str.lower() on one character
LowerChar(c) == IF c \in DOMAIN LowerOf THEN LowerOf[c] ELSE c

\* str.lower()
Lower(s) == [i \in DOMAIN s |-> LowerChar(s[i])]

(***************************************************************************)
(* tidy and valid.                                                         *)
(***************************************************************************)
RECURSIVE LStrip(_)
LStrip(s) ==
    IF s = <<>> THEN <<>>
    ELSE IF Head(s) \in Whitespace THEN LStrip(Tail(s)) ELSE s

RECURSIVE RStrip(_)
RStrip(s) ==
    IF s = <<>> THEN <<>>
    ELSE IF s[Len(s)] \in Whitespace THEN RStrip(SubSeq(s, 1, Len(s) - 1)) ELSE s

\* txt.strip()
Strip(s) == RStrip(LStrip(s))

\* re.sub(r"\s+", " ", txt): every maximal whitespace run becomes one space
RECURSIVE CollapseSpaces(_)
CollapseSpaces(s) ==
    IF s = <<>> THEN <<>>
    ELSE IF Head(s) \in Whitespace
         THEN <<" ">> \o CollapseSpaces(LStrip(Tail(s)))
         ELSE <<Head(s)>> \o CollapseSpaces(Tail(s))

IsAllowed(c) == c \in AllowedChars

\* re.sub(r"[^A-Za-z0-9\s\-\'\"!?.,]", "", txt)
DropDisallowed(s) == SelectSeq(s, IsAllowed)

tidy(txt) == DropDisallowed(CollapseSpaces(Strip(txt)))

\* where "$" matches: at the end, or just before a final newline
DollarAt(txt, n) ==
    \/ n = Len(txt)
    \/ n = Len(txt) - 1 /\ txt[Len(txt)] = "\n"

\* the variant of valid that accepts zero characters ("*" for "+")
valid_star(txt) ==
    \E n \in 0..Len(txt) :
        /\ \A i \in 1..n : txt[i] \in AllowedChars
        /\ DollarAt(txt, n)

\* bool(re.match(r"^[A-Za-z0-9\s\-\'\"!?.,]+$", txt))
valid(txt) ==
    \E n \in 1..Len(txt) :
        /\ \A i \in 1..n : txt[i] \in AllowedChars
        /\ DollarAt(txt, n)

TextIdle ==
    /\ txt_pc = "off"
    /\ txt_in = <<>>
    /\ txt_out = <<>>
    /\ txt_ok = FALSE

(***************************************************************************)
(* Movie and Book objects.  Every text field is a character sequence.      *)
(***************************************************************************)
S_Unknown == <<"U","n","k","n","o","w","n">>

S_Guest == <<"G","u","e","s","t">>

S_csv == <<"c","s","v">>

S_web == <<"w","e","b">>

\* "Found via Goodreads lookup"
S_Placeholder ==
    <<"F","o","u","n","d"," ","v","i","a"," ","G","o","o","d","r","e","a","d","s",
      " ","l","o","o","k","u","p">>

Movie(title, genre) == [title |-> title, genre |-> genre]

Book(title, author, genre, description, source) ==
    [title |-> title, author |-> author, genre |-> genre,
     description |-> description, source |-> source]

(***************************************************************************)
(* The catalog: load_csv and from_local.                                   *)
(***************************************************************************)
NoFile == [missing |-> TRUE, rows |-> <<>>]

CsvFile(rows) == [missing |-> FALSE, rows |-> rows]

\* load_csv's loop over csv.DictReader(f): setdefault(key, []).append(Book)
RECURSIVE LoadRows(_, _, _)
LoadRows(rows, data, lists) ==
    IF rows = <<>> THEN [dataset |-> data, heap |-> lists]
    ELSE LET row == Head(rows)
             key == Lower(row.movie_title)
             b == Book(row.book_title, row.book_author, row.book_genre,
                       row.book_description, S_csv)
         IN  IF key \in DOMAIN data
             THEN LoadRows(Tail(rows), data,
                           [lists EXCEPT ![data[key]] = Append(@, b)])
             ELSE LoadRows(Tail(rows), data @@ (key :> Len(lists) + 1),
                           Append(lists, <<b>>))

\* load_csv: a missing file gives the empty dict
load_csv(file, lists) ==
    IF file.missing THEN [dataset |-> <<>>, heap |-> lists]
    ELSE LoadRows(file.rows, <<>>, lists)

\* list[:n] for n >= 0
Slice(list, n) == SubSeq(list, 1, IF n < Len(list) THEN n ELSE Len(list))

\* dataset.get(key, []): the stored list, or 0 for the fresh empty default
Get(data, key) == IF key \in DOMAIN data THEN data[key] ELSE 0

Items(lists, ref) == IF ref = 0 THEN <<>> ELSE lists[ref]

\* the variant of from_local that looks the title up as typed
from_local_as_typed(movie, data, lists, minimum) ==
    Slice(Items(lists, Get(data, movie)), minimum)

\* the items of dataset.get(movie.lower(), [])[:minimum]
from_local(movie, data, lists, minimum) ==
    Slice(Items(lists, Get(data, Lower(movie))), minimum)

\* the variant of SliceObject that hands out the stored list itself
SliceObjectAlias(stored, fresh) == IF stored = 0 THEN fresh ELSE stored

\* the list object a slice evaluates to: always a new list, never the
\* list that was sliced
SliceObject(stored, fresh) == fresh

CatalogIdle ==
    /\ csv_file = NoFile
    /\ heap = <<>>
    /\ dataset = <<>>
    /\ loc_pc = "off"
    /\ loc_movie = <<>>
    /\ loc_minimum = 0
    /\ loc_out = <<>>

(***************************************************************************)
(* The Goodreads fallback: fetch_data_from_web.  A response is the list of *)
(* a.bookTitle anchors of the page in document order, each with its text   *)
(* and the author tag of its table row if there is one; failed stands for  *)
(* any exception of requests.get or of the parser.                         *)
(***************************************************************************)
FailedPage == [failed |-> TRUE, anchors |-> <<>>]

Page(anchors) == [failed |-> FALSE, anchors |-> anchors]

Anchor(text, has_author, author) ==
    [text |-> text, has_author |-> has_author, author |-> author]

ScanLimit == 8

bad_words ==
    {<<"c","o","l","o","u","r">>, <<"c","o","l","o","r","i","n","g">>,
     <<"d","i","a","r","y">>, <<"a","c","t","i","v","i","t","y">>,
     <<"g","u","i","d","e">>}

\* b in s, for strings
Contains(s, b) ==
    \E i \in 0..(Len(s) - Len(b)) : SubSeq(s, i + 1, i + Len(b)) = b

\* ln.get_text(strip=True)
AnchorTitle(ln) == Strip(ln.text)

\* any(b in title.lower() for b in bad_words)
IsJunk(title) == \E b \in bad_words : Contains(Lower(title), b)

\* the author of the anchor's row, "Unknown" when no row or tag is found
AnchorAuthor(ln) == IF ln.has_author THEN Strip(ln.author) ELSE S_Unknown

\* the loop over links: i is the next anchor, the result is the list
\* collected and the number of anchors looked at
RECURSIVE ScanLinks(_, _, _, _, _)
ScanLinks(links, i, collected, genre, count) ==
    IF i > Len(links) THEN [collected |-> collected, seen |-> Len(links)]
    ELSE LET title == AnchorTitle(links[i])
             author == AnchorAuthor(links[i])
         IN  IF IsJunk(title) \/ author = S_Unknown
             THEN ScanLinks(links, i + 1, collected, genre, count)
             ELSE LET more == Append(collected,
                                  Book(title, author, genre, S_Placeholder, S_web))
                  IN  IF Len(more) >= count
                      THEN [collected |-> more, seen |-> i]
                      ELSE ScanLinks(links, i + 1, more, genre, count)

fetch_data_from_web(page, genre, count) ==
    IF page.failed THEN [collected |-> <<>>, seen |-> 0]
    ELSE ScanLinks(Slice(page.anchors, ScanLimit), 1, <<>>, genre, count)

WebIdle ==
    /\ web_pc = "off"
    /\ web_page = FailedPage
    /\ web_genre = <<>>
    /\ web_count = 0
    /\ web_out = <<>>
    /\ web_seen = 0

\* main has not started
NoQuery == [title |-> <<>>, local |-> <<>>, fetched |-> FALSE, web |-> <<>>]

MainIdle ==
    /\ main_pc = "off"
    /\ main_user = <<>>
    /\ recs = 0
    /\ session_memory = <<>>
    /\ outcome = "none"
    /\ n_valid = 0
    /\ query = NoQuery

(***************************************************************************)
(* The sqlite store: db_setup, save, show_records.                         *)
(* history and books hold the committed rows in rowid order.  A connection *)
(* in the default (legacy) transaction mode opens a transaction before its *)
(* first INSERT and keeps the rows pending until commit(); CREATE TABLE    *)
(* runs outside a transaction and is committed at once.  A call that       *)
(* raises never reaches commit() or close(): its connection is abandoned   *)
(* with the pending rows and, if it had inserted, with the write lock,     *)
(* until the runtime deallocates it, which rolls the transaction back.     *)
(***************************************************************************)
DbAbsent ==
    /\ tables = {}
    /\ history = <<>>
    /\ books = <<>>
    /\ sqlite_sequence = [history |-> 0, books |-> 0]
    /\ db_pc = "idle"
    /\ db_args = <<>>
    /\ db_sid = 0
    /\ db_next = 1
    /\ pend_history = <<>>
    /\ pend_books = <<>>
    /\ write_lock = "free"
    /\ n_leaked = 0
    /\ n_abandoned = 0
    /\ db_last = "none"
    /\ shown = <<>>
    /\ save_log = <<>>

CanConnect == n_leaked + n_abandoned < MaxConns

\* the call returns normally after connection.close()
Return ==
    /\ db_pc' = "idle"
    /\ db_args' = <<>>
    /\ db_sid' = 0
    /\ db_next' = 1
    /\ pend_history' = <<>>
    /\ pend_books' = <<>>

\* the variant of Uncommitted for a connection in autocommit mode
UncommittedAutocommit(rows, pending) == rows \o pending

\* the rows of a table once a call has raised with rows pending: commit()
\* was not reached, the pending rows are never visible
Uncommitted(rows, pending) == rows

\* an exception leaves the call: no commit(), no close()
Raise ==
    /\ Return
    /\ history' = Uncommitted(history, pend_history)
    /\ books' = Uncommitted(books, pend_books)
    /\ sqlite_sequence' =
           [history |-> sqlite_sequence.history + Len(history') - Len(history),
            books |-> sqlite_sequence.books + Len(books') - Len(books)]
    /\ n_abandoned' = n_abandoned + 1
    /\ write_lock' = IF write_lock = "call" THEN "abandoned" ELSE write_lock
    /\ db_last' = "raised"
    /\ UNCHANGED <<n_leaked, shown, save_log>>

\* db_setup up to the first CREATE TABLE IF NOT EXISTS
DbSetupBegin ==
    /\ db_pc = "idle"
    /\ CanConnect
    /\ IF "history" \in tables
       THEN /\ db_pc' = "setup_books"
            /\ UNCHANGED <<storeVars, db_args, db_sid, db_next, pend_history,
                           pend_books, connVars, db_last, shown, save_log>>
       ELSE IF write_lock # "free"
       THEN Raise /\ UNCHANGED tables
       ELSE /\ tables' = tables \cup {"history"}
            /\ db_pc' = "setup_books"
            /\ UNCHANGED <<history, books, sqlite_sequence, db_args, db_sid,
                           db_next, pend_history, pend_books, connVars, db_last,
                           shown, save_log>>
    /\ UNCHANGED <<textVars, catVars, locVars, webVars, mainVars>>

\* db_setup from the second CREATE TABLE to commit() and close()
DbSetupFinish ==
    /\ db_pc = "setup_books"
    /\ IF "books" \notin tables /\ write_lock # "free"
       THEN Raise /\ UNCHANGED tables
       ELSE /\ tables' = tables \cup {"books"}
            /\ Return
            /\ db_last' = "db_setup"
            /\ UNCHANGED <<history, books, sqlite_sequence, connVars, shown,
                           save_log>>
    /\ UNCHANGED <<textVars, catVars, locVars, webVars, mainVars>>

\* The rows of one save call.
HistoryRow(id, user, movie) ==
    [id |-> id, user |-> user, movie |-> movie.title, genre |-> movie.genre]

\* the variant of BookRow that tags the row with its own rowid
BookRowOwnId(id, sid, b) ==
    [id |-> id, sid |-> id, title |-> b.title, author |-> b.author,
     source |-> b.source]

BookRow(id, sid, b) ==
    [id |-> id, sid |-> sid, title |-> b.title, author |-> b.author,
     source |-> b.source]

\* save up to INSERT INTO history and sid = con.lastrowid
SaveBegin(user, movie, book_list) ==
    /\ db_pc = "idle"
    /\ CanConnect
    /\ Len(save_log) < MaxSaves
    /\ IF "history" \notin tables \/ write_lock # "free"
       THEN Raise /\ UNCHANGED tables
       ELSE /\ db_pc' = "save_books"
            /\ db_args' = [user |-> user, movie |-> movie, book_list |-> book_list]
            /\ db_sid' = sqlite_sequence.history + 1
            /\ db_next' = 1
            /\ pend_history' =
                   <<HistoryRow(sqlite_sequence.history + 1, user, movie)>>
            /\ pend_books' = <<>>
            /\ write_lock' = "call"
            /\ UNCHANGED <<storeVars, n_leaked, n_abandoned, db_last, shown,
                           save_log>>
    /\ UNCHANGED <<textVars, catVars, locVars, webVars, mainVars>>

\* one pass of the loop: INSERT INTO books for book_list[db_next]
SaveInsertBook ==
    /\ db_pc = "save_books"
    /\ db_next <= Len(db_args.book_list)
    /\ IF "books" \notin tables
       THEN Raise /\ UNCHANGED tables
       ELSE /\ pend_books' = Append(pend_books,
                   BookRow(sqlite_sequence.books + Len(pend_books) + 1, db_sid,
                           db_args.book_list[db_next]))
            /\ db_next' = db_next + 1
            /\ UNCHANGED <<storeVars, db_pc, db_args, db_sid, pend_history,
                           connVars, db_last, shown, save_log>>
    /\ UNCHANGED <<textVars, catVars, locVars, webVars, mainVars>>

\* what commit() makes visible to every connection
Committed(rows, pending) == rows \o pending

\* connnection.commit() and connnection.close()
SaveCommit ==
    /\ db_pc = "save_books"
    /\ db_next > Len(db_args.book_list)
    /\ history' = Committed(history, pend_history)
    /\ books' = Committed(books, pend_books)
    /\ sqlite_sequence' =
           [history |-> sqlite_sequence.history + Len(pend_history),
            books |-> sqlite_sequence.books + Len(pend_books)]
    /\ write_lock' = "free"
    /\ save_log' = Append(save_log, db_args)
    /\ db_last' = "save"
    /\ Return
    /\ UNCHANGED <<tables, n_leaked, n_abandoned, shown, textVars, catVars, locVars, webVars, mainVars>>

\* a statement of the call in progress fails (disk error, interrupt)
CallRaise ==
    /\ db_pc # "idle"
    /\ Raise
    /\ UNCHANGED <<tables, textVars, catVars, locVars, webVars, mainVars>>

\* the runtime deallocates an abandoned connection: rollback and unlock
DeallocAbandoned ==
    /\ n_abandoned > 0
    /\ n_abandoned' = n_abandoned - 1
    /\ \E holder \in BOOLEAN :
           /\ holder => write_lock = "abandoned"
           /\ (~holder /\ write_lock = "abandoned") => n_abandoned > 1
           /\ write_lock' = IF holder THEN "free" ELSE write_lock
    /\ UNCHANGED <<storeVars, callVars, n_leaked, db_last, shown, save_log,
                   textVars, catVars, locVars, webVars, mainVars>>

\* the runtime deallocates a connection a call returned without closing
DeallocLeaked ==
    /\ n_leaked > 0
    /\ n_leaked' = n_leaked - 1
    /\ UNCHANGED <<storeVars, callVars, write_lock, n_abandoned, db_last,
                   shown, save_log, textVars, catVars, locVars, webVars, mainVars>>

\* SELECT title,author,source FROM books WHERE sid=?
BooksOf(sid) ==
    LET IsOf(r) == r.sid = sid
        rows == SelectSeq(books, IsOf)
    IN  [i \in DOMAIN rows |->
            [title |-> rows[i].title, author |-> rows[i].author,
             source |-> rows[i].source]]

\* what show_records prints: every history row with the books under it
Listing ==
    [i \in DOMAIN history |->
        [id |-> history[i].id, user |-> history[i].user,
         movie |-> history[i].movie, genre |-> history[i].genre,
         books |-> BooksOf(history[i].id)]]

\* show_records; on an empty history it returns before con.close(), and
\* whether the connection is closed by then is up to the runtime
show_records ==
    /\ db_pc = "idle"
    /\ CanConnect
    /\ IF "history" \notin tables \/ (history # <<>> /\ "books" \notin tables)
       THEN Raise
       ELSE /\ shown' = Listing
            /\ db_last' = "show_records"
            /\ \E reclaimed \in BOOLEAN :
                   n_leaked' = IF history = <<>> /\ ~reclaimed
                               THEN n_leaked + 1 ELSE n_leaked
            /\ UNCHANGED <<history, books, sqlite_sequence, callVars,
                           write_lock, n_abandoned, save_log>>
    /\ UNCHANGED <<tables, textVars, catVars, locVars, webVars, mainVars>>

(***************************************************************************)
(* The store on its own: any sequence of db_setup, save and show_records   *)
(* calls, any of which may fail part-way.                                  *)
(***************************************************************************)
B_csv ==
    Book(<<"D","u","n","e">>, <<"H","e","r","b","e","r","t">>,
         <<"S","c","i","F","i">>, <<"s","a","n","d">>, S_csv)

B_web ==
    Book(<<"E","m","m","a">>, <<"A","u","s","t","e","n">>,
         S_Unknown, S_Placeholder, S_web)

StoreUsers == {S_Guest}

StoreMovies ==
    {Movie(<<"D","u","n","e">>, <<"S","c","i","F","i">>),
     Movie(<<"E","m","m","a">>, S_Unknown)}

StoreBookLists ==
    {<<>>, <<B_csv>>, <<B_csv, B_web>>, <<B_web, B_csv>>, <<B_web, B_web>>}

DbInit == TextIdle /\ DbAbsent /\ CatalogIdle /\ WebIdle /\ MainIdle

save_call ==
    \E user \in StoreUsers, movie \in StoreMovies, book_list \in StoreBookLists :
        SaveBegin(user, movie, book_list)

DbNext ==
    \/ DbSetupBegin
    \/ DbSetupFinish
    \/ save_call
    \/ SaveInsertBook
    \/ SaveCommit
    \/ CallRaise
    \/ show_records
    \/ DeallocAbandoned
    \/ DeallocLeaked

SpecDb == DbInit /\ [][DbNext]_vars

(***************************************************************************)
(* Claims on the store.                                                    *)
(***************************************************************************)
Triples(book_list) ==
    [i \in DOMAIN book_list |->
        [title |-> book_list[i].title, author |-> book_list[i].author,
         source |-> book_list[i].source]]

\* C3: every committed books row has the id of a committed history row as
\* its sid, every committed history row comes from a save call that
\* returned, and it is visible with exactly the item rows of that call,
\* also after calls that failed part-way.
C3_NoPartialSave ==
    /\ \A i \in DOMAIN books : \E j \in DOMAIN history : history[j].id = books[i].sid
    /\ Len(history) = Len(save_log)
    /\ \A j \in DOMAIN history :
           BooksOf(history[j].id) = Triples(save_log[j].book_list)

C3_Witness ==
    /\ write_lock = "abandoned"
    /\ db_last = "raised"
    /\ Len(history) = 1
    /\ Len(books) = 2

\* C4: show_records lists the saved records in insertion order with
\* strictly increasing ids, each with the user, movie title, genre and item
\* triples of its own save call and no item of another record.
C4_RoundTrip ==
    db_last = "show_records" =>
        /\ Len(shown) = Len(save_log)
        /\ \A i \in DOMAIN shown :
               /\ shown[i].user = save_log[i].user
               /\ shown[i].movie = save_log[i].movie.title
               /\ shown[i].genre = save_log[i].movie.genre
               /\ shown[i].books = Triples(save_log[i].book_list)
        /\ \A i, j \in DOMAIN shown : i < j => shown[i].id < shown[j].id

C4_Witness ==
    /\ db_last = "show_records"
    /\ Len(shown) = 2
    /\ Len(shown[1].books) = 2
    /\ shown[2].books # shown[1].books
    /\ shown[2].movie # shown[1].movie

\* C10: no connection opened by a call that returned normally is still open
\* after the call.
C10_NoConnectionLeftOpen == n_leaked = 0

(***************************************************************************)
(* The catalog on its own: load_csv on any file of at most MaxRows rows    *)
(* whose movie titles differ in case or in letters, then one from_local.   *)
(***************************************************************************)
DigitChars == <<"1","2","3","4","5","6","7","8","9">>

CsvRow(i, movie_title) ==
    [movie_title |-> movie_title,
     book_title |-> <<"B", DigitChars[i]>>,
     book_author |-> <<"A", DigitChars[i]>>,
     book_genre |-> <<"G">>,
     book_description |-> <<"d">>]

CsvTitles == {<<"A","b">>, <<"a","B">>, <<"b">>}

CsvFiles ==
    {NoFile} \cup
    UNION {{CsvFile([i \in 1..n |-> CsvRow(i, t[i])]) : t \in [1..n -> CsvTitles]} :
              n \in 0..MaxRows}

LocalQueries == {<<"a","b">>, <<"A","B">>, <<"B">>, <<"z">>}

LocalInit ==
    /\ TextIdle
    /\ DbAbsent
    /\ WebIdle
    /\ MainIdle
    /\ csv_file \in CsvFiles
    /\ heap = <<>>
    /\ dataset = <<>>
    /\ loc_pc = "start"
    /\ loc_movie = <<>>
    /\ loc_minimum = 0
    /\ loc_out = <<>>

LoadCsv ==
    /\ loc_pc = "start"
    /\ loc_pc' = "loaded"
    /\ dataset' = load_csv(csv_file, heap).dataset
    /\ heap' = load_csv(csv_file, heap).heap
    /\ UNCHANGED <<csv_file, loc_movie, loc_minimum, loc_out, textVars, dbVars, webVars, mainVars>>

FromLocalCall ==
    /\ loc_pc = "loaded"
    /\ \E movie \in LocalQueries, minimum \in 0..MaxLimit :
           /\ loc_movie' = movie
           /\ loc_minimum' = minimum
           /\ loc_out' = from_local(movie, dataset, heap, minimum)
    /\ loc_pc' = "returned"
    /\ UNCHANGED <<catVars, textVars, dbVars, webVars, mainVars>>

LocalNext == LoadCsv \/ FromLocalCall

SpecLocal == LocalInit /\ [][LocalNext]_vars

(***************************************************************************)
(* Claims on the catalog.                                                  *)
(***************************************************************************)
SameLetter(c, d) ==
    \/ c = d
    \/ \E i \in DOMAIN UpperLetters :
           {c, d} = {UpperLetters[i], LowerLetters[i]}

EqualIgnoringCase(a, b) ==
    Len(a) = Len(b) /\ \A i \in DOMAIN a : SameLetter(a[i], b[i])

\* the books of the file's rows for a title, in file order
RowsFor(movie) ==
    LET Match(row) == EqualIgnoringCase(row.movie_title, movie)
        rows == SelectSeq(csv_file.rows, Match)
    IN  [i \in DOMAIN rows |->
            Book(rows[i].book_title, rows[i].book_author, rows[i].book_genre,
                 rows[i].book_description, S_csv)]

Min(a, b) == IF a < b THEN a ELSE b

\* C7: from_local returns the first min(limit, n) of the n items loaded for
\* the title that equals the query case-insensitively, in dataset order,
\* never more than limit items, and nothing for an absent title.
C7_FromLocalPrefix ==
    loc_pc = "returned" =>
        /\ Len(loc_out) = Min(loc_minimum, Len(RowsFor(loc_movie)))
        /\ loc_out = SubSeq(RowsFor(loc_movie), 1, Len(loc_out))
        /\ Len(loc_out) <= loc_minimum

C7_Witness ==
    /\ loc_pc = "returned"
    /\ loc_movie = <<"A","B">>
    /\ loc_minimum = 3
    /\ Len(RowsFor(loc_movie)) = 4
    /\ Len(csv_file.rows) = 5
    /\ Len(loc_out) = 3


(***************************************************************************)
(* The fallback on its own: one call on a failed request or on a page of   *)
(* up to ScanLimit rejected anchors followed by up to MaxAnchors anchors   *)
(* of any kind, for any count up to MaxCount.                              *)
(***************************************************************************)
A_Dune == Anchor(<<" ","D","u","n","e"," ">>, TRUE, <<"H","e","r","b","e","r","t">>)

A_Emma == Anchor(<<"E","m","m","a">>, TRUE, <<" ","A","u","s","t","e","n">>)

A_Guide == Anchor(<<"D","u","n","e"," ","G","U","I","D","E">>, TRUE, <<"X">>)

A_NoAuthor == Anchor(<<"U","b","i","k">>, FALSE, <<>>)

A_Diary == Anchor(<<"M","y","D","i","a","r","y">>, TRUE, <<"Y">>)

AnchorPool == {A_Dune, A_Emma, A_Guide, A_NoAuthor}

WebPages ==
    {FailedPage} \cup
    {Page([i \in 1..k |-> A_Diary] \o tail) :
        k \in 0..ScanLimit, tail \in StringsUpTo(AnchorPool, MaxAnchors)}

WebGenres == {S_Unknown, <<"S","c","i","F","i">>}

WebInit ==
    /\ TextIdle
    /\ DbAbsent
    /\ CatalogIdle
    /\ MainIdle
    /\ web_pc = "start"
    /\ web_page \in WebPages
    /\ web_genre \in WebGenres
    /\ web_count = 0
    /\ web_out = <<>>
    /\ web_seen = 0

FetchCall ==
    /\ web_pc = "start"
    /\ web_pc' = "returned"
    /\ \E count \in 0..MaxCount :
           /\ web_count' = count
           /\ web_out' = fetch_data_from_web(web_page, web_genre, count).collected
           /\ web_seen' = fetch_data_from_web(web_page, web_genre, count).seen
    /\ UNCHANGED <<web_page, web_genre, textVars, dbVars, catVars, locVars, mainVars>>

WebNext == FetchCall

SpecWeb == WebInit /\ [][WebNext]_vars

(***************************************************************************)
(* Claims on the fallback.                                                 *)
(***************************************************************************)
\* a candidate the filter keeps: no denylisted word in the title, in any
\* case, and an author resolved from the row
Acceptable(ln) ==
    /\ \A b \in bad_words : ~Contains(Lower(Strip(ln.text)), b)
    /\ ln.has_author
    /\ Strip(ln.author) # S_Unknown

\* the acceptable candidates among the first 8 anchors, as books
Candidates(page, genre) ==
    LET first == SubSeq(page.anchors, 1, Min(ScanLimit, Len(page.anchors)))
        kept == SelectSeq(first, Acceptable)
    IN  [i \in DOMAIN kept |->
            Book(Strip(kept[i].text), Strip(kept[i].author), genre,
                 S_Placeholder, S_web)]

\* how many anchors hold the first n acceptable candidates
RECURSIVE Reach(_, _)
Reach(anchors, n) ==
    IF n = 0 \/ anchors = <<>> THEN 0
    ELSE 1 + Reach(Tail(anchors), IF Acceptable(Head(anchors)) THEN n - 1 ELSE n)

FetchContract(count) ==
    /\ Len(web_out) <= count
    /\ web_out = SubSeq(Candidates(web_page, web_genre), 1,
                        Min(count, Len(Candidates(web_page, web_genre))))
    /\ \A i \in DOMAIN web_out :
           /\ web_out[i].source = S_web
           /\ web_out[i].genre = web_genre
           /\ web_out[i].description = S_Placeholder
    /\ (count >= 1 /\ Len(Candidates(web_page, web_genre)) >= count) =>
           web_seen <= Reach(Slice(web_page.anchors, ScanLimit), count)

\* C8: for every count >= 0, fetch_data_from_web returns at most count
\* items: the first count acceptable candidates among the first 8 anchors,
\* in document order, each tagged web with the caller's genre and the
\* placeholder description, and it looks at no anchor after the count-th
\* accepted one.
C8_FetchContract ==
    web_pc = "returned" => FetchContract(web_count)

\* The same contract for the counts of at least 1.
C8_FetchContractFromOne ==
    (web_pc = "returned" /\ web_count >= 1) => FetchContract(web_count)

(***************************************************************************)
(* main: db_setup and load_csv, the menu, then the recommendation loop.    *)
(* One action is one pass of a loop from its input() to its continue,      *)
(* break or end, with every call made on the way.                          *)
(***************************************************************************)
\* from_local's default minimum, and the 4 of main's test
LocalMinimum == 4

\* count=2 of main's call of fetch_data_from_web
ExternalCount == 2

\* the variant of TooFew that also falls back at exactly four books
TooFewOrFour(book_list) == Len(book_list) <= 4

\* if len(recs) < 4
TooFew(book_list) == Len(book_list) < 4

\* input(...).strip() or default
StripOr(raw, default) == IF Strip(raw) = <<>> THEN default ELSE Strip(raw)

\* db_setup() and dataset = load_csv()
MainStart ==
    /\ main_pc = "start"
    /\ main_pc' = "menu"
    /\ tables' = tables \cup {"history", "books"}
    /\ db_last' = "db_setup"
    /\ dataset' = load_csv(csv_file, heap).dataset
    /\ heap' = load_csv(csv_file, heap).heap
    /\ UNCHANGED <<history, books, sqlite_sequence, callVars, connVars, shown,
                   save_log, csv_file, main_user, recs, session_memory,
                   outcome,
                   n_valid, query, textVars, locVars, webVars>>

\* choice "1" and the name prompt
MenuRecommend ==
    /\ main_pc = "menu"
    /\ main_pc' = "loop"
    /\ \E raw \in {<<>>, <<" ","a","n","n">>} : main_user' = StripOr(raw, S_Guest)
    /\ UNCHANGED <<recs, session_memory, outcome, n_valid, query, textVars,
                   dbVars, catVars, locVars, webVars>>

\* choice "2"
MenuHistory ==
    /\ main_pc = "menu"
    /\ show_records

\* choice "3"
MenuExit ==
    /\ main_pc = "menu"
    /\ main_pc' = "done"
    /\ UNCHANGED <<main_user, recs, session_memory, outcome, n_valid, query,
                   textVars, dbVars, catVars, locVars, webVars>>

\* "q": leave the loop, analysis_of_data, end
Quit ==
    /\ main_pc = "loop"
    /\ \E raw \in {<<"q">>, <<"Q">>} : Lower(raw) = <<"q">>
    /\ main_pc' = "done"
    /\ UNCHANGED <<main_user, recs, session_memory, outcome, n_valid, query,
                   textVars, dbVars, catVars, locVars, webVars>>

\* a title that valid rejects
RejectTitle(raw) ==
    /\ main_pc = "loop"
    /\ Lower(raw) # <<"q">>
    /\ ~valid(tidy(raw))
    /\ outcome' = "invalid"
    /\ UNCHANGED <<main_pc, main_user, recs, session_memory, n_valid, query,
                   textVars, dbVars, catVars, locVars, webVars>>

\* a title that valid accepts: the lookups, and save unless recs is empty
Recommend(raw, raw_genre, page) ==
    /\ main_pc = "loop"
    /\ n_valid < MaxQueries
    /\ Lower(raw) # <<"q">>
    /\ valid(tidy(raw))
    /\ LET cleaned == tidy(raw)
           genre == StripOr(raw_genre, S_Unknown)
           m_obj == Movie(cleaned, genre)
           local == from_local(m_obj.title, dataset, heap, LocalMinimum)
           fresh == Len(heap) + 1
           ref == SliceObject(Get(dataset, Lower(m_obj.title)), fresh)
           heap1 == Append(heap, local)
           fetched == TooFew(heap1[ref])
           web == IF fetched
                  THEN fetch_data_from_web(page, genre, ExternalCount).collected
                  ELSE <<>>
           heap2 == [heap1 EXCEPT ![ref] = @ \o web]
           book_list == heap2[ref]
           sid == sqlite_sequence.history + 1
       IN  /\ recs' = ref
           /\ heap' = heap2
           /\ n_valid' = n_valid + 1
           /\ query' = [title |-> cleaned, local |-> local, fetched |-> fetched,
                        web |-> web]
           /\ IF book_list = <<>>
              THEN /\ outcome' = "none found"
                   /\ UNCHANGED <<history, books, sqlite_sequence, db_last,
                                  save_log, session_memory>>
              ELSE /\ outcome' = "recommended"
                   /\ history' = Append(history, HistoryRow(sid, main_user, m_obj))
                   /\ books' = books \o
                          [i \in DOMAIN book_list |->
                              BookRow(sqlite_sequence.books + i, sid, book_list[i])]
                   /\ sqlite_sequence' =
                          [history |-> sid,
                           books |-> sqlite_sequence.books + Len(book_list)]
                   /\ db_last' = "save"
                   /\ save_log' = Append(save_log,
                          [user |-> main_user, movie |-> m_obj,
                           book_list |-> book_list])
                   /\ session_memory' = Append(session_memory,
                          [movie |-> m_obj, recs |-> ref])
    /\ UNCHANGED <<main_pc, main_user, tables, callVars, connVars, shown, csv_file,
                   dataset, textVars, locVars, webVars>>

(***************************************************************************)
(* The program: any dataset of up to MaxRows rows for one movie, any menu  *)
(* choices, up to MaxQueries accepted titles, any response of the site.    *)
(***************************************************************************)
MainCsvFiles ==
    {NoFile} \cup
    {CsvFile([i \in 1..n |-> CsvRow(i, IF i % 2 = 1 THEN <<"A","b">> ELSE <<"a","B">>)]) :
        n \in 0..MaxRows}

MainTitles == {<<"a","@","b">>, <<" ","A","B"," ">>, <<"@">>}

MainGenres == {<<>>, <<" ","F"," ">>}

MainPages == {FailedPage, Page(<<A_Guide, A_Dune, A_NoAuthor, A_Emma, A_Dune>>)}

Init ==
    /\ TextIdle
    /\ DbAbsent
    /\ WebIdle
    /\ csv_file \in MainCsvFiles
    /\ heap = <<>>
    /\ dataset = <<>>
    /\ loc_pc = "off"
    /\ loc_movie = <<>>
    /\ loc_minimum = 0
    /\ loc_out = <<>>
    /\ main_pc = "start"
    /\ main_user = <<>>
    /\ recs = 0
    /\ session_memory = <<>>
    /\ outcome = "none"
    /\ n_valid = 0
    /\ query = NoQuery

MovieInput ==
    \E raw \in MainTitles :
        \/ RejectTitle(raw)
        \/ \E raw_genre \in MainGenres, page \in MainPages :
               Recommend(raw, raw_genre, page)

Next ==
    \/ MainStart
    \/ MenuRecommend
    \/ MenuHistory
    \/ MenuExit
    \/ MovieInput
    \/ Quit
    \/ DeallocLeaked

Spec == Init /\ [][Next]_vars

(***************************************************************************)
(* Claims on the recommendation loop.                                      *)
(***************************************************************************)
Asked == outcome \in {"none found", "recommended"}

\* the list recs is bound to after the last query
Recs == Items(heap, recs)

\* C1: the external lookup is called iff the local lookup returned fewer
\* than 4 items; with 4 or more items in the catalog the result is exactly
\* the first 4 of them and nothing external, otherwise it is the local
\* items in dataset order followed by the external items as fetched.
C1_FallbackPolicy ==
    Asked =>
        LET rows == RowsFor(query.title)
        IN  /\ query.fetched <=> Len(query.local) < 4
            /\ Len(rows) >= 4 =>
                   /\ Recs = SubSeq(rows, 1, 4)
                   /\ ~query.fetched
                   /\ \A i \in DOMAIN Recs : Recs[i].source = S_csv
            /\ Len(rows) < 4 =>
                   /\ query.fetched
                   /\ Recs = rows \o query.web

C1_Witness ==
    /\ Asked
    /\ Len(RowsFor(query.title)) = 4
    /\ ~query.fetched
    /\ Len(Recs) = 4

\* C2: every movie title that passes validation adds exactly one row to
\* history, also when neither lookup returns an item.
C2_EverySearchRecorded == Len(history) = n_valid

\* C9: after load the catalog never changes: its keys and the list under
\* every key stay those load_csv built, and the local result of every
\* query, repeated or not, is the first 4 catalog items and nothing else.
C9_CatalogReadOnly ==
    main_pc \in {"menu", "loop", "done"} =>
        LET loaded == load_csv(csv_file, <<>>)
        IN  /\ dataset = loaded.dataset
            /\ \A key \in DOMAIN dataset :
                   heap[dataset[key]] = loaded.heap[loaded.dataset[key]]
            /\ Asked =>
                   query.local =
                       SubSeq(RowsFor(query.title), 1,
                              Min(4, Len(RowsFor(query.title))))

C9_Witness ==
    /\ n_valid = 2
    /\ Len(session_memory) = 2
    /\ EqualIgnoringCase(session_memory[1].movie.title, session_memory[2].movie.title)
    /\ Len(query.local) = 2
    /\ Len(query.web) = 2
    /\ Len(heap[session_memory[1].recs]) = 4

(***************************************************************************)
(* Input cleaning on its own: one call of tidy or of valid on any string   *)
(* over TextChars of at most MaxLen characters.                            *)
(***************************************************************************)
TextChars == {"a", " ", "\n", "@", "!"}

TextInit ==
    /\ txt_pc = "new"
    /\ txt_in \in StringsUpTo(TextChars, MaxLen)
    /\ txt_out = <<>>
    /\ txt_ok = FALSE
    /\ DbAbsent
    /\ CatalogIdle
    /\ WebIdle
    /\ MainIdle

TidyCall ==
    /\ txt_pc = "new"
    /\ txt_pc' = "tidied"
    /\ txt_out' = tidy(txt_in)
    /\ UNCHANGED <<txt_in, txt_ok, dbVars, catVars, locVars, webVars, mainVars>>

ValidCall ==
    /\ txt_pc = "new"
    /\ txt_pc' = "validated"
    /\ txt_ok' = valid(txt_in)
    /\ UNCHANGED <<txt_in, txt_out, dbVars, catVars, locVars, webVars, mainVars>>

TextNext == TidyCall \/ ValidCall

SpecText == TextInit /\ [][TextNext]_vars

(***************************************************************************)
(* Claims on input cleaning.                                               *)
(***************************************************************************)
NoEdgeSpace(s) ==
    s = <<>> \/ (s[1] \notin Whitespace /\ s[Len(s)] \notin Whitespace)

NoSpaceRun(s) ==
    \A i \in 1..(Len(s) - 1) : ~(s[i] \in Whitespace /\ s[i + 1] \in Whitespace)

OnlyAllowed(s) == \A i \in DOMAIN s : s[i] \in AllowedChars

\* C5: tidy(raw) has no leading or trailing whitespace, no run of two or
\* more whitespace characters, only allowed characters, and tidy is
\* idempotent on it.
C5_TidyNormalForm ==
    txt_pc = "tidied" =>
        /\ NoEdgeSpace(txt_out)
        /\ NoSpaceRun(txt_out)
        /\ OnlyAllowed(txt_out)
        /\ tidy(txt_out) = txt_out

\* C6 as stated: valid(cleaned) is true iff every character of cleaned is
\* allowed, so that the empty string is not rejected.
C6_ValidIffAllAllowed ==
    txt_pc = "validated" => (txt_ok <=> OnlyAllowed(txt_in))

\* C6 amended: valid(cleaned) is true iff cleaned is non-empty and every
\* character of cleaned is allowed; valid itself rejects the empty string.
C6_ValidIffNonEmptyAllowed ==
    txt_pc = "validated" => (txt_ok <=> (txt_in # <<>> /\ OnlyAllowed(txt_in)))

C6_Witness ==
    /\ txt_pc = "validated"
    /\ txt_in = <<>>
    /\ txt_ok = FALSE

====
